---- MODULE Spec2Model ----
(***************************************************************************)
(* console_log: a logger that routes records of the `log` facade to the    *)
(* browser console.  The model covers the crate's public surface           *)
(* (init, init_with_level, log), the Log implementation of the private     *)
(* WebConsoleLogger (enabled, log, flush), the facade's global state the   *)
(* crate reads and writes (registered logger, max level), and the host     *)
(* console as the sequence of calls made on it.                            *)
(***************************************************************************)
EXTENDS Naturals, Sequences, FiniteSets, TLC

VARIABLES
    color,          \* build-time feature "color": styled or unstyled dispatch
    logger,         \* the facade's registered logger (set-once slot)
    maxLevel,       \* the facade's global max level (a LevelFilter)
    loggerWrites,   \* number of writes to the registered-logger slot
    levelWrites,    \* number of writes to the global max level
    console,        \* host console: the calls made on it, in order
    results,        \* return values of the init / init_with_level calls, in order
    last,           \* the last completed operation: name, argument, return value
    pc,             \* concurrent callers of init_with_level: position in the body
    arg,            \* concurrent callers: the level passed
    ret,            \* concurrent callers: the value returned
    foreign         \* number of facade calls made by other components

vars == <<color, logger, maxLevel, loggerWrites, levelWrites, console, results,
          last, pc, arg, ret, foreign>>

facade == <<logger, maxLevel>>

----------------------------------------------------------------------------
(* Bounds of the model.                                                    *)

MaxConsole == 1     \* host console calls recorded per behaviour
MaxInits == 3       \* init / init_with_level calls per behaviour
MaxForeign == 1     \* facade calls made by other components per behaviour

----------------------------------------------------------------------------
(* The facade's types: log::Level and log::LevelFilter.                    *)

Level == {"Error", "Warn", "Info", "Debug", "Trace"}

LevelFilter == {"Off"} \cup Level

\* `Level as usize`: Error = 1 .. Trace = 5 (most urgent first).
LevelAsUsize(level) ==
    CASE level = "Error" -> 1
      [] level = "Warn"  -> 2
      [] level = "Info"  -> 3
      [] level = "Debug" -> 4
      [] level = "Trace" -> 5

\* `LevelFilter as usize`: Off = 0, then as Level.
LevelFilterAsUsize(filter) ==
    IF filter = "Off" THEN 0 ELSE LevelAsUsize(filter)

\* Level::to_level_filter: the filter with the same discriminant.
to_level_filter(level) ==
    CHOOSE f \in LevelFilter : LevelFilterAsUsize(f) = LevelAsUsize(level)

\* Display of a Level, as format!("{level}") renders it.
LevelDisplay(level) ==
    CASE level = "Error" -> "ERROR"
      [] level = "Warn"  -> "WARN"
      [] level = "Info"  -> "INFO"
      [] level = "Debug" -> "DEBUG"
      [] level = "Trace" -> "TRACE"

\* The logger slot's values: nothing registered, this crate's LOGGER, or a
\* logger of another component sharing the facade.
NoLogger == "none"
LOGGER == "WebConsoleLogger"
OtherLogger == "other"

----------------------------------------------------------------------------
(* Records.  Option<T> values are None or <<v>> (Some(v)).                 *)

None == <<>>
Some(v) == <<v>>
IsSome(o) == o # None
Unwrap(o) == o[1]

Targets == {"app"}
Files == {None, Some("app.rs")}
Lines == {None, Some(42)}
Texts == {"disk low"}

Record == [level : Level, target : Targets, file : Files, line : Lines,
           args : Texts]

\* Placeholder for "no record passed".
NoRecord == [level |-> "unit", target |-> "", file |-> None, line |-> None,
             args |-> ""]

\* u32::to_string: decimal digits, most significant first.
Digit(d) == <<"0", "1", "2", "3", "4", "5", "6", "7", "8", "9">>[d + 1]

RECURSIVE u32_to_string(_)
u32_to_string(n) ==
    IF n < 10 THEN Digit(n) ELSE u32_to_string(n \div 10) \o Digit(n % 10)

----------------------------------------------------------------------------
(* style.rs: the style table.                                              *)

bg_color(c) == "color: white; padding: 0 3px; background: " \o c \o ";"

STYLE ==
    [trace     |-> bg_color("gray"),
     debug     |-> bg_color("blue"),
     info      |-> bg_color("green"),
     warn      |-> bg_color("orange"),
     error     |-> bg_color("darkred"),
     file_line |-> "font-weight: bold; color: inherit",
     text      |-> "background: inherit; color: inherit"]

----------------------------------------------------------------------------
(* The dispatcher: pub fn log(record).                                     *)

\* Faulty variant: each level goes to the host operation of the same name.
console_log_by_name(level) ==
    CASE level = "Error" -> "error"
      [] level = "Warn"  -> "warn"
      [] level = "Info"  -> "info"
      [] level = "Debug" -> "debug"
      [] level = "Trace" -> "trace"

\* The host console operation picked for a level (both variants pick the
\* same operation; the styled one its 4-argument form).
console_log(level) ==
    CASE level = "Error" -> "error"
      [] level = "Warn"  -> "warn"
      [] level = "Info"  -> "info"
      [] level = "Debug" -> "log"
      [] level = "Trace" -> "debug"

\* record.file().unwrap_or_else(|| record.target())
file_or_target(record) ==
    IF IsSome(record.file) THEN Unwrap(record.file) ELSE record.target

\* Faulty variant: an absent line is rendered as the number 0.
line_or_unknown_zero(record) ==
    u32_to_string(IF IsSome(record.line) THEN Unwrap(record.line) ELSE 0)

\* record.line().map_or_else(|| "[Unknown]".to_string(), |line| line.to_string())
line_or_unknown(record) ==
    IF IsSome(record.line) THEN u32_to_string(Unwrap(record.line))
    ELSE "[Unknown]"

\* format!("%c{level}%c {file}:{line} %c\n{text}", ..)
message(record) ==
    "%c" \o LevelDisplay(record.level) \o "%c " \o file_or_target(record)
        \o ":" \o line_or_unknown(record) \o " %c\n" \o record.args

level_style(level) ==
    CASE level = "Trace" -> STYLE.trace
      [] level = "Debug" -> STYLE.debug
      [] level = "Info"  -> STYLE.info
      [] level = "Warn"  -> STYLE.warn
      [] level = "Error" -> STYLE.error

\* The one host call log(record) makes, in the variant the build selects.
host_call(record) ==
    IF color
    THEN [op |-> console_log(record.level),
          args |-> <<message(record), level_style(record.level),
                     STYLE.file_line, STYLE.text>>]
    ELSE [op |-> console_log(record.level), args |-> <<record.args>>]

\* Faulty variant: the comparison is strict.
enabled_strict(level) == LevelAsUsize(level) < LevelFilterAsUsize(maxLevel)

\* WebConsoleLogger::enabled: metadata.level() <= log::max_level()
enabled(level) == LevelAsUsize(level) <= LevelFilterAsUsize(maxLevel)

----------------------------------------------------------------------------
(* The facade's registration point and max-level setter.                   *)

\* Faulty variant: log::set_logger succeeds whether or not a logger is registered.
set_logger_always_ok == TRUE

\* Result of log::set_logger in the current state: Ok(()) iff no logger is
\* registered yet.
set_logger_ok == logger = NoLogger

\* log::set_logger(l): an atomic set-once of the logger slot; a failing call
\* leaves the slot alone.
set_logger(l) ==
    IF set_logger_ok
    THEN logger' = l /\ loggerWrites' = loggerWrites + 1
    ELSE UNCHANGED <<logger, loggerWrites>>

\* log::set_max_level(filter): stores the global max level.
set_max_level(filter) ==
    /\ maxLevel' = filter
    /\ levelWrites' = levelWrites + 1

\* A call `op` returns `r`; it was passed the level `l` ("unit" when it
\* takes none) and the record `rec` (NoRecord when it takes none).
Done(op, l, rec, r) ==
    last' = [op |-> op, level |-> l, record |-> rec, ret |-> r]

----------------------------------------------------------------------------
(* Operations of the crate, called one after another.                      *)

\* Faulty variant: the threshold is never set.
init_with_level_as_no_level(op, a, level) ==
    /\ Len(results) < MaxInits
    /\ set_logger(LOGGER)
    /\ UNCHANGED <<maxLevel, levelWrites>>
    /\ results' = Append(results, IF set_logger_ok THEN "Ok" ELSE "Err")
    /\ Done(op, a, NoRecord, IF set_logger_ok THEN "Ok" ELSE "Err")
    /\ UNCHANGED <<color, console, pc, arg, ret, foreign>>

\* Faulty variant: the `?` is dropped, set_logger's error is ignored.
init_with_level_as_ignore_err(op, a, level) ==
    /\ Len(results) < MaxInits
    /\ set_logger(LOGGER)
    /\ set_max_level(to_level_filter(level))
    /\ results' = Append(results, "Ok")
    /\ Done(op, a, NoRecord, "Ok")
    /\ UNCHANGED <<color, console, pc, arg, ret, foreign>>

\* Faulty variant: the threshold is set before the logger is registered.
init_with_level_as_level_first(op, a, level) ==
    /\ Len(results) < MaxInits
    /\ set_max_level(to_level_filter(level))
    /\ set_logger(LOGGER)
    /\ results' = Append(results, IF set_logger_ok THEN "Ok" ELSE "Err")
    /\ Done(op, a, NoRecord, IF set_logger_ok THEN "Ok" ELSE "Err")
    /\ UNCHANGED <<color, console, pc, arg, ret, foreign>>

\* The body of pub fn init_with_level(level), run to completion by the call
\* `op` with argument `a`:
\*     log::set_logger(&LOGGER)?;
\*     log::set_max_level(level.to_level_filter());
\*     Ok(())
init_with_level_as(op, a, level) ==
    /\ Len(results) < MaxInits
    /\ set_logger(LOGGER)
    /\ IF set_logger_ok
       THEN /\ set_max_level(to_level_filter(level))
            /\ results' = Append(results, "Ok")
            /\ Done(op, a, NoRecord, "Ok")
       ELSE /\ UNCHANGED <<maxLevel, levelWrites>>
            /\ results' = Append(results, "Err")
            /\ Done(op, a, NoRecord, "Err")
    /\ UNCHANGED <<color, console, pc, arg, ret, foreign>>

init_with_level(level) == init_with_level_as("init_with_level", level, level)

\* pub fn init(): init_with_level(Level::Info)
init == init_with_level_as("init", "unit", "Info")

\* Faulty variant: the standalone function filters by the global threshold.
log_filtered(record) ==
    /\ Len(console) < MaxConsole
    /\ console' = IF enabled(record.level)
                  THEN Append(console, host_call(record)) ELSE console
    /\ Done("log", "unit", record, "unit")
    /\ UNCHANGED <<color, logger, maxLevel, loggerWrites, levelWrites, results,
                   pc, arg, ret, foreign>>

\* pub fn log(record): one host console call, whatever the facade's state.
log(record) ==
    /\ Len(console) < MaxConsole
    /\ console' = Append(console, host_call(record))
    /\ Done("log", "unit", record, "unit")
    /\ UNCHANGED <<color, logger, maxLevel, loggerWrites, levelWrites, results,
                   pc, arg, ret, foreign>>

\* LOGGER is private: its methods are reached through the facade, once it
\* is the registered logger.
WebConsoleLogger_enabled(level) ==
    /\ logger = LOGGER
    /\ Done("WebConsoleLogger::enabled", level, NoRecord,
            IF enabled(level) THEN "true" ELSE "false")
    /\ UNCHANGED <<color, logger, maxLevel, loggerWrites, levelWrites, console,
                   results, pc, arg, ret, foreign>>

\* Faulty variant: the enabled check is missing.
WebConsoleLogger_log_unfiltered(record) ==
    /\ logger = LOGGER
    /\ Len(console) < MaxConsole
    /\ console' = Append(console, host_call(record))
    /\ Done("WebConsoleLogger::log", "unit", record, "unit")
    /\ UNCHANGED <<color, logger, maxLevel, loggerWrites, levelWrites, results,
                   pc, arg, ret, foreign>>

\* WebConsoleLogger::log: returns early when the record is not enabled,
\* otherwise log(record).
WebConsoleLogger_log(record) ==
    /\ logger = LOGGER
    /\ Len(console) < MaxConsole
    /\ IF ~enabled(record.level)
       THEN console' = console
       ELSE console' = Append(console, host_call(record))
    /\ Done("WebConsoleLogger::log", "unit", record, "unit")
    /\ UNCHANGED <<color, logger, maxLevel, loggerWrites, levelWrites, results,
                   pc, arg, ret, foreign>>

\* WebConsoleLogger::flush: empty body.
WebConsoleLogger_flush ==
    /\ logger = LOGGER
    /\ Done("WebConsoleLogger::flush", "unit", NoRecord, "unit")
    /\ UNCHANGED <<color, logger, maxLevel, loggerWrites, levelWrites, console,
                   results, pc, arg, ret, foreign>>

----------------------------------------------------------------------------
(* Other components sharing the facade.                                    *)

\* Another component registers its own logger through log::set_logger.
foreign_set_logger ==
    /\ foreign < MaxForeign
    /\ foreign' = foreign + 1
    /\ set_logger(OtherLogger)
    /\ Done("log::set_logger", "unit", NoRecord,
            IF set_logger_ok THEN "Ok" ELSE "Err")
    /\ UNCHANGED <<color, maxLevel, levelWrites, console, results, pc, arg, ret>>

\* Another component sets the global max level through log::set_max_level.
foreign_set_max_level(filter) ==
    /\ foreign < MaxForeign
    /\ foreign' = foreign + 1
    /\ set_max_level(filter)
    /\ Done("log::set_max_level", filter, NoRecord, "unit")
    /\ UNCHANGED <<color, logger, loggerWrites, console, results, pc, arg, ret>>

----------------------------------------------------------------------------
(* init_with_level called from two threads: the body's two facade calls    *)
(* are separate steps, each atomic.                                        *)

Threads == {1, 2}

call_init_with_level(t, level) ==
    /\ pc[t] = "idle"
    /\ pc' = [pc EXCEPT ![t] = "set_logger"]
    /\ arg' = [arg EXCEPT ![t] = level]
    /\ UNCHANGED <<color, logger, maxLevel, loggerWrites, levelWrites, console,
                   results, last, ret, foreign>>

\* Faulty variant: the `?` is dropped, the loser goes on to set the threshold.
set_logger_step_ignore_err(t) ==
    /\ pc[t] = "set_logger"
    /\ set_logger(LOGGER)
    /\ pc' = [pc EXCEPT ![t] = "set_max_level"]
    /\ UNCHANGED <<color, maxLevel, levelWrites, console, results, last, arg,
                   ret, foreign>>

\* log::set_logger(&LOGGER)?
set_logger_step(t) ==
    /\ pc[t] = "set_logger"
    /\ set_logger(LOGGER)
    /\ IF set_logger_ok
       THEN pc' = [pc EXCEPT ![t] = "set_max_level"] /\ ret' = ret
       ELSE pc' = [pc EXCEPT ![t] = "returned"]
            /\ ret' = [ret EXCEPT ![t] = "Err"]
    /\ UNCHANGED <<color, maxLevel, levelWrites, console, results, last, arg,
                   foreign>>

\* log::set_max_level(level.to_level_filter()); Ok(())
set_max_level_step(t) ==
    /\ pc[t] = "set_max_level"
    /\ set_max_level(to_level_filter(arg[t]))
    /\ pc' = [pc EXCEPT ![t] = "returned"]
    /\ ret' = [ret EXCEPT ![t] = "Ok"]
    /\ UNCHANGED <<color, logger, loggerWrites, console, results, last, arg,
                   foreign>>

----------------------------------------------------------------------------
(* Specifications.                                                         *)

Init ==
    /\ color \in BOOLEAN
    /\ logger = NoLogger
    /\ maxLevel = "Off"
    /\ loggerWrites = 0
    /\ levelWrites = 0
    /\ console = <<>>
    /\ results = <<>>
    /\ last = [op |-> "start", level |-> "unit", record |-> NoRecord,
               ret |-> "unit"]
    /\ pc = [t \in Threads |-> "idle"]
    /\ arg = [t \in Threads |-> "Info"]
    /\ ret = [t \in Threads |-> "unit"]
    /\ foreign = 0

\* The crate's operations alone, called one after another.
Next ==
    \/ \E level \in Level : init_with_level(level)
    \/ init
    \/ \E record \in Record : log(record)
    \/ \E level \in Level : WebConsoleLogger_enabled(level)
    \/ \E record \in Record : WebConsoleLogger_log(record)
    \/ WebConsoleLogger_flush

Spec == Init /\ [][Next]_vars

\* The crate's operations in a process where other components use the
\* facade too.
NextFacade ==
    \/ Next
    \/ foreign_set_logger
    \/ \E filter \in LevelFilter : foreign_set_max_level(filter)

SpecFacade == Init /\ [][NextFacade]_vars

\* Two threads, each calling init_with_level once.
NextConc ==
    \/ \E t \in Threads, level \in Level : call_init_with_level(t, level)
    \/ \E t \in Threads : set_logger_step(t)
    \/ \E t \in Threads : set_max_level_step(t)

SpecConc == Init /\ [][NextConc]_vars

----------------------------------------------------------------------------
(* Properties.                                                             *)

\* Urgency of a severity: Error the most urgent, Trace the least.
Urgency == [Error |-> 5, Warn |-> 4, Info |-> 3, Debug |-> 2, Trace |-> 1]

\* Severity s passes threshold t: t is not Off and s is at least as urgent.
UrgentEnough(s, t) == t \in Level /\ Urgency[s] >= Urgency[t]

\* The documented mapping from severities to host console operations.
HostOp == [Error |-> "error", Warn |-> "warn", Info |-> "info",
           Debug |-> "log", Trace |-> "debug"]

IsInit(l) == l.op \in {"init", "init_with_level"}

\* The step appends exactly one call to the host console.
OneHostCall == /\ Len(console') = Len(console) + 1
               /\ SubSeq(console', 1, Len(console)) = console

LastCall == console[Len(console)]

\* C1: in any sequence of init / init_with_level calls the first returns
\* Ok and every later one the "logger already set" error; the logger slot
\* is written at most once, by the first call, and holds the crate's sink
\* from then on.
C1_FirstInitOkLaterErr ==
    /\ \A i \in 1..Len(results) : results[i] = IF i = 1 THEN "Ok" ELSE "Err"
    /\ loggerWrites <= 1
    /\ Len(results) >= 1 => (logger = LOGGER /\ loggerWrites = 1)

C1_Witness ==
    /\ results = <<"Ok", "Err", "Err">>
    /\ IsInit(last) /\ last.ret = "Err"
    /\ logger = LOGGER

\* C2: when init_with_level(L) returns Ok the crate's sink is the
\* registered logger and the global threshold is L; when init() returns Ok
\* the global threshold is Info.
C2_InitOkInstallsSinkAndLevel ==
    (IsInit(last) /\ last.ret = "Ok") =>
        /\ logger = LOGGER
        /\ maxLevel = IF last.op = "init" THEN "Info" ELSE last.level

C2_Witness ==
    /\ last.op = "init_with_level" /\ last.ret = "Ok"
    /\ last.level = "Trace"
    /\ logger = LOGGER /\ maxLevel = "Trace"

\* C3: an init / init_with_level call made while a logger is registered
\* (this crate's or another component's) returns the error, and the failing
\* call leaves the registered logger and the global threshold as they were,
\* whatever level it was given.
C3_FailedInitChangesNothing ==
    [][IsInit(last') =>
          /\ (last'.ret = "Err") <=> (logger # NoLogger)
          /\ (last'.ret = "Err") => (logger' = logger /\ maxLevel' = maxLevel)
      ]_vars

C3_Witness ==
    /\ last.op = "init_with_level" /\ last.ret = "Err"
    /\ logger = OtherLogger
    /\ last.level = "Trace" /\ maxLevel = "Off"

\* C4: for every record severity S and threshold T among the five levels,
\* the sink's enabled(S) returns true iff S is at least as urgent as T.
C4_EnabledIffUrgentEnough ==
    /\ (last.op = "WebConsoleLogger::enabled" /\ maxLevel \in Level) =>
           ((last.ret = "true") <=> (Urgency[last.level] >= Urgency[maxLevel]))
    /\ maxLevel \in Level =>
           \A s \in Level : enabled(s) <=> (Urgency[s] >= Urgency[maxLevel])

C4_Witness ==
    /\ last.op = "WebConsoleLogger::enabled"
    /\ last.level = "Debug" /\ maxLevel = "Info" /\ last.ret = "false"

\* C5: a dispatch of a record (the standalone log, or the sink's log on an
\* enabled record) makes exactly one host console call, the one mapped to
\* the record's severity (Error->error, Warn->warn, Info->info, Debug->log,
\* Trace->debug), in its 4-argument form in the styled variant and its
\* 1-argument form in the unstyled one.
C5_DispatchCallsMappedOp ==
    [][(\/ last'.op = "log"
        \/ /\ last'.op = "WebConsoleLogger::log"
           /\ UrgentEnough(last'.record.level, maxLevel)) =>
          /\ OneHostCall
          /\ console'[Len(console')].op = HostOp[last'.record.level]
          /\ Len(console'[Len(console')].args) = IF color THEN 4 ELSE 1
      ]_vars

C5_Witness ==
    /\ color
    /\ last.op = "WebConsoleLogger::log" /\ last.record.level = "Debug"
    /\ maxLevel = "Trace"
    /\ Len(console) = 1 /\ LastCall.op = "log" /\ Len(LastCall.args) = 4

\* C6: the sink's log makes no host console call for a record whose
\* severity is not enabled under the current threshold, and exactly one
\* for a record whose severity is enabled.
C6_SinkLogAllOrNothing ==
    [][last'.op = "WebConsoleLogger::log" =>
          IF UrgentEnough(last'.record.level, maxLevel)
          THEN OneHostCall
          ELSE console' = console
      ]_vars

C6_Witness ==
    /\ last.op = "WebConsoleLogger::log"
    /\ last.record.level = "Info" /\ maxLevel = "Warn"
    /\ console = <<>>

\* C7: in the styled variant the composite string's location segment is
\* the record's file, or its target when the file is absent, then ":",
\* then the line number in decimal, or "[Unknown]" when the line is absent;
\* the two fallbacks are independent.
C7_StyledLocationFallbacks ==
    (color /\ last.op = "log") =>
        LET r == last.record
            f == IF r.file = None THEN r.target ELSE r.file[1]
            l == IF r.line = None THEN "[Unknown]" ELSE ToString(r.line[1])
        IN  LastCall.args[1] =
                "%c" \o LevelDisplay(r.level) \o "%c " \o f \o ":" \o l
                     \o " %c\n" \o r.args

C7_Witness ==
    /\ color /\ last.op = "log"
    /\ last.record.level = "Warn"
    /\ last.record.file = Some("app.rs") /\ last.record.line = None
    /\ LastCall.args[1] = "%cWARN%c app.rs:[Unknown] %c\ndisk low"

\* C8: over any sequence of the crate's operations the logger slot and the
\* global threshold are each written at most once, only by the init call
\* that succeeds; enabled, log and flush leave them alone; enabled and
\* flush make no host console call and return normally.
C8_WrittenOnceByInit ==
    /\ [](/\ loggerWrites <= 1 /\ levelWrites <= 1
          /\ last.op = "WebConsoleLogger::enabled" =>
                 last.ret \in {"true", "false"}
          /\ last.op = "WebConsoleLogger::flush" => last.ret = "unit")
    /\ [][/\ (<<facade, loggerWrites, levelWrites>>'
                  # <<facade, loggerWrites, levelWrites>>) =>
                 (IsInit(last') /\ last'.ret = "Ok" /\ logger = NoLogger)
          /\ last'.op \in {"WebConsoleLogger::enabled",
                           "WebConsoleLogger::flush"} => console' = console
         ]_vars

C8_Witness ==
    /\ results = <<"Ok", "Err", "Err">>
    /\ last.op = "WebConsoleLogger::flush"
    /\ Len(console) = 1
    /\ loggerWrites = 1 /\ levelWrites = 1

\* C9: the standalone log(record) makes exactly one host console call, the
\* one mapped to the record's severity, whatever the global threshold is
\* and whether or not a logger is registered.
C9_StandaloneLogIgnoresThreshold ==
    [][last'.op = "log" =>
          /\ OneHostCall
          /\ console'[Len(console')].op = HostOp[last'.record.level]
      ]_vars

C9_Witness ==
    /\ last.op = "log" /\ last.record.level = "Trace"
    /\ logger = LOGGER /\ maxLevel = "Error"
    /\ Len(console) = 1 /\ LastCall.op = "debug"

\* C10: when two init_with_level calls interleave, once both have returned
\* exactly one has returned Ok and the other the error, and the global
\* threshold is the level the successful call was given.
C10_ConcurrentInitOneWinner ==
    (\A t \in Threads : pc[t] = "returned") =>
        \E w \in Threads :
            /\ ret[w] = "Ok"
            /\ \A t \in Threads \ {w} : ret[t] = "Err"
            /\ logger = LOGGER
            /\ maxLevel = arg[w]

C10_Witness ==
    /\ \A t \in Threads : pc[t] = "returned"
    /\ arg[1] = "Error" /\ arg[2] = "Trace"
    /\ ret[1] = "Err" /\ ret[2] = "Ok"
    /\ maxLevel = "Trace"

====
